---- MODULE Spec2Model ----
(***************************************************************************)
(* Model of the application tester (script3_test_applications_cleanedup.py *)
(* class ApplicationTester): the run_tests loop, the per-application       *)
(* launch_and_test_application flow, kill_process_tree and the pause /     *)
(* cancel flags, running against an OS process table and window set that   *)
(* change on their own.                                                    *)
(***************************************************************************)
EXTENDS Integers, Sequences, FiniteSets, TLC

(***************************************************************************)
(* Bounds of the model.                                                    *)
(***************************************************************************)
NumCases == 2          \* length of self.shortcuts / self.executables
MaxEnvSteps == 1       \* spontaneous OS changes during one run
MaxCaseEnvSteps == 3   \* spontaneous OS changes during the case studied alone
MaxLines == 2          \* lines of a file handed to load_files
MaxTree == 3           \* process identifiers of the kill_process_tree harness
MaxPausedTime == 2     \* seconds a detection loop is kept paused, in all

(***************************************************************************)
(* Configuration values (config.get(..) of launch_and_test_application).   *)
(* The defaults of the source are 20 / 2 / 2 / 5 seconds; the model runs   *)
(* with a configuration file that sets smaller values.                     *)
(***************************************************************************)
max_wait_time == 3
poll_interval == 1

(***************************************************************************)
(* Strings: str.lower() on the executable names the model uses.            *)
(***************************************************************************)
LowerTable ==
  ("App.exe" :> "app.exe") @@ ("SvcHost.exe" :> "svchost.exe") @@
  ("Consent.exe" :> "consent.exe") @@ ("WindowsTerminal.exe" :> "windowsterminal.exe") @@
  ("CMD.EXE" :> "cmd.exe") @@ ("Helper.exe" :> "helper.exe") @@
  ("Host.exe" :> "host.exe")

Lower(s) == IF s \in DOMAIN LowerTable THEN LowerTable[s] ELSE s

\* Characters of the window titles and application names (for re.search).
Chars ==
  ("MyApp" :> <<"M", "y", "A", "p", "p">>) @@
  ("myapp - Document" :> <<"m", "y", "a", "p", "p", "-", "D">>) @@
  ("Helper of MYAPP" :> <<"H", "-", "M", "Y", "A", "P", "P">>) @@
  ("Service Host" :> <<"S", "-", "H">>) @@
  ("Cmd" :> <<"C", "m", "d">>) @@
  ("Terminal" :> <<"T", "e", "r">>) @@
  ("MyApp Setup" :> <<"M", "y", "A", "p", "p", "-", "S">>)

LowerCharTable ==
  ("M" :> "m") @@ ("Y" :> "y") @@ ("A" :> "a") @@ ("P" :> "p") @@ ("D" :> "d") @@
  ("H" :> "h") @@ ("S" :> "s") @@ ("C" :> "c") @@ ("T" :> "t")

LowerChar(c) == IF c \in DOMAIN LowerCharTable THEN LowerCharTable[c] ELSE c

LowerSeq(s) == [i \in 1..Len(s) |-> LowerChar(s[i])]

\* s occurs in t as a contiguous substring
IsSubstring(s, t) ==
  \E k \in 0..(Len(t) - Len(s)) : \A i \in 1..Len(s) : t[k + i] = s[i]

\* re.search(re.escape(app_name), window_title, re.IGNORECASE)
TitleMatches(app_name, window_title) ==
  IsSubstring(LowerSeq(Chars[app_name]), LowerSeq(Chars[window_title]))

(***************************************************************************)
(* Configuration: excluded_processes as load_config stores it.             *)
(***************************************************************************)
ConfigExcluded == {"SvcHost.exe"}

excluded_processes == {Lower(p) : p \in ConfigExcluded}

is_system_process_CaseSensitive(proc_name) == proc_name \in excluded_processes

is_system_process(proc_name) == Lower(proc_name) \in excluded_processes

\* executable_aliases.get(expected_executable_name, expected_executable_name)
executable_aliases ==
  ("cmd.exe" :> "WindowsTerminal.exe") @@ ("powershell.exe" :> "WindowsTerminal.exe") @@
  ("wmplayer.exe" :> "setup_wm.exe")

ActualExecutableName(expected_executable_name) ==
  IF expected_executable_name \in DOMAIN executable_aliases
  THEN executable_aliases[expected_executable_name]
  ELSE expected_executable_name

(***************************************************************************)
(* State.                                                                  *)
(***************************************************************************)
VARIABLES
  procs,               \* OS process table: the live process identifiers
  pname,               \* process identifier -> executable name
  ppid,                \* process identifier -> parent identifier (0: none)
  wins,                \* OS window set: the open top-level window handles
  testing_paused,      \* self.testing_paused
  testing_cancelled,   \* self.testing_cancelled
  pc,                  \* position of the worker thread
  index,               \* enumerate(..., start=1) index of run_tests
  results,             \* self.results
  lt,                  \* locals of launch_and_test_application
  elapsed,             \* time.time() - start_time
  killRet,             \* outcome of the last kill_process_tree call
  hist                 \* observations of the run (what was invoked, and when)

vars == <<procs, pname, ppid, wins, testing_paused, testing_cancelled, pc, index,
          results, lt, elapsed, killRet, hist>>

(***************************************************************************)
(* Helpers on sets and sequences.                                          *)
(***************************************************************************)
Min(S) == CHOOSE m \in S : \A x \in S : m <= x

RECURSIVE SortedSeq(_)
SortedSeq(S) == IF S = {} THEN <<>> ELSE <<Min(S)>> \o SortedSeq(S \ {Min(S)})

SeqRange(s) == {s[i] : i \in 1..Len(s)}

(***************************************************************************)
(* kill_process_tree                                                       *)
(***************************************************************************)
\* parent.children(recursive=True): the live processes reached from root
\* through live parents
RECURSIVE Reach(_, _)
Reach(frontier, alive) ==
  LET next == {q \in alive : ppid[q] \in frontier}
  IN  IF next = {} THEN {} ELSE next \cup Reach(next, alive \ next)

Children(pid) == SortedSeq(Reach({pid}, procs \ {pid}))

\* What the OS answers for one process of the tree:
\*   gone     - it exited on its own: name()/terminate()/kill() raise NoSuchProcess
\*   denied   - terminate()/kill() raise AccessDenied
\*   exits    - the signal is delivered and the process is gone after the wait
\*   survives - the signal is delivered and the process outlives the wait
Outcomes == {"gone", "denied", "exits", "survives"}
KillOutcomes == {"gone", "denied", "exits"}

\* first loop (lines 201-214): the children that are sent terminate(); a
\* child whose name() or terminate() raises is passed over
TerminatedChildren(children, oc) ==
  SelectSeq(children, LAMBDA c : /\ oc[c] # "gone"
                                 /\ ~is_system_process(pname[c])
                                 /\ oc[c] # "denied")

\* psutil.wait_procs(children, timeout=5): still_alive
StillAlive(children, oc) ==
  SelectSeq(children, LAMBDA c : /\ oc[c] # "gone"
                                 /\ ~(c \in SeqRange(TerminatedChildren(children, oc))
                                      /\ oc[c] = "exits"))

\* second loop (lines 217-230): the survivors that are sent kill()
KilledChildren_None(still_alive, koc) == <<>>

KilledChildren(still_alive, koc) ==
  SelectSeq(still_alive, LAMBDA c : /\ koc[c] # "gone"
                                    /\ ~is_system_process(pname[c])
                                    /\ koc[c] # "denied")

\* lines 194-198: the guard on the root
RootSkipped_Never(parent_name) == FALSE

RootSkipped(parent_name) == is_system_process(parent_name)

NoKill == [ret |-> <<>>, sig |-> <<>>, dead |-> {}, denied |-> {}, gone |-> {}]

NoCall == [pid |-> 0, including_parent |-> FALSE, before |-> {},
           ret |-> <<>>, sig |-> <<>>, dead |-> {}, denied |-> {}, gone |-> {}]

\* The order of the three passes (lines 200-214, 216-230, 232-241)
Signals_RootFirst(term_signals, kill_signals, root_signals) ==
  root_signals \o term_signals \o kill_signals

Signals(term_signals, kill_signals, root_signals) ==
  term_signals \o kill_signals \o root_signals

\* the processes for which terminate() or kill() raised AccessDenied (the
\* logging.error of lines 213, 229 and 241)
DeniedChildren(children, oc, kind) ==
  {<<c, kind>> : c \in {c \in SeqRange(children) :
                          oc[c] = "denied" /\ ~is_system_process(pname[c])}}

\* kill_process_tree(pid, including_parent) under the OS answers oc (first
\* loop), koc (second loop) and roc (the root): the list returned, the
\* signals delivered in order, and the processes that are gone afterwards.
kill_process_tree(pid, including_parent, oc, koc, roc) ==
  IF pid \notin procs THEN [NoKill EXCEPT !.gone = {pid}]  \* psutil.NoSuchProcess
  ELSE IF RootSkipped(pname[pid]) THEN NoKill
  ELSE
    LET children == Children(pid)
        term == TerminatedChildren(children, oc)
        still_alive == StillAlive(children, oc)
        killed == KilledChildren(still_alive, koc)
        \* parent.terminate() delivered
        rootSig == including_parent /\ roc \in {"exits", "survives"}
        \* parent.wait(5) returned: otherwise TimeoutExpired reaches line 245
        rootRet == including_parent /\ roc = "exits"
    IN  [ret |-> [i \in 1..Len(term) |-> pname[term[i]]]
                 \o [i \in 1..Len(killed) |-> pname[killed[i]]]
                 \o (IF rootRet THEN <<pname[pid]>> ELSE <<>>),
         sig |-> Signals([i \in 1..Len(term) |-> <<term[i], "terminate">>],
                         [i \in 1..Len(killed) |-> <<killed[i], "kill">>],
                         IF rootSig THEN <<<<pid, "terminate">>>> ELSE <<>>),
         denied |-> DeniedChildren(children, oc, "terminate")
                    \cup DeniedChildren(still_alive, koc, "kill")
                    \cup (IF including_parent /\ roc = "denied"
                          THEN {<<pid, "terminate">>} ELSE {}),
         gone |-> {c \in SeqRange(children) : oc[c] = "gone"}
                  \cup {c \in SeqRange(still_alive) : koc[c] = "gone"}
                  \cup (IF including_parent /\ roc = "gone" THEN {pid} ELSE {}),
         dead |-> {c \in SeqRange(children) : oc[c] = "gone"}
                  \cup {c \in SeqRange(term) : oc[c] = "exits"}
                  \cup {c \in SeqRange(still_alive) : koc[c] = "gone"}
                  \cup SeqRange(killed)
                  \cup (IF including_parent /\ roc \in {"gone", "exits"} THEN {pid} ELSE {})]

(***************************************************************************)
(* The machine under test: the processes and windows that can exist.       *)
(***************************************************************************)
Handles == 1..5

CatalogName ==
  (1 :> "SvcHost.exe") @@ (2 :> "App.exe") @@ (3 :> "Helper.exe") @@
  (4 :> "Consent.exe") @@ (5 :> "WindowsTerminal.exe") @@ (6 :> "Host.exe")

CatalogParent == (1 :> 0) @@ (2 :> 0) @@ (3 :> 2) @@ (4 :> 0) @@ (5 :> 0) @@ (6 :> 0)

\* processes of another account: psutil.Process(pid).exe() raises AccessDenied
ExeDenied == {6}

\* window.process_id() and window.window_text()
wowner == (1 :> 2) @@ (2 :> 3) @@ (3 :> 1) @@ (4 :> 5) @@ (5 :> 6)

wtitle ==
  (1 :> "myapp - Document") @@ (2 :> "Helper of MYAPP") @@
  (3 :> "Service Host") @@ (4 :> "Terminal") @@ (5 :> "MyApp Setup")

\* a window goes when the process that owns it goes
OpenAmong(ws, ps) == {w \in ws : wowner[w] \in ps}

(***************************************************************************)
(* The inventory: self.shortcuts and self.executables, line for line.      *)
(***************************************************************************)
shortcuts == [i \in 1..NumCases |->
                [lnk |-> i, app |-> IF i % 2 = 1 THEN "MyApp" ELSE "Cmd"]]

executables == [i \in 1..NumCases |-> IF i % 2 = 1 THEN "App.exe" ELSE "CMD.EXE"]

\* os.path.basename(shortcut_path).replace('.lnk', '')
AppName(shortcut_path) == shortcut_path.app

(***************************************************************************)
(* Result records (the dict of lines 254-263).                             *)
(***************************************************************************)
\* '; '.join(xs) or 'None': the joined items, or the text None when empty
JoinOrNone(xs) == IF xs = {} THEN [text |-> "None", items |-> {}]
                  ELSE [text |-> "joined", items |-> xs]

Blank == [text |-> "", items |-> {}]

NewResult(shortcut_path, expected_exe_path) ==
  [Name |-> AppName(shortcut_path),
   ShortcutPath |-> shortcut_path,
   ExpectedExecutable |-> Lower(expected_exe_path),
   Status |-> "Not Tested",
   Remarks |-> "",
   AssociatedWindows |-> Blank,
   TerminatedExecutables |-> Blank,
   ClosedWindows |-> Blank]

NoLocals ==
  [processes_before |-> {}, windows_before |-> {},
   application_window_found |-> FALSE, expected_window |-> 0, main_app_pid |-> 0,
   actual_executable_name |-> "",
   associated_window_titles |-> <<>>, terminated_executables |-> {},
   closed_windows |-> {}, result |-> [Status |-> "Not Tested"]]

NoHist ==
  [started |-> 0,          \* cases handed to launch_and_test_application
   missing |-> {},         \* indices whose shortcut did not exist at line 281
   launched |-> {},        \* indices for which os.startfile was invoked
   snapshots |-> {},       \* indices for which a baseline snapshot was taken
   cancelledAtStart |-> {},\* indices started with testing_cancelled set
   cancelInFlight |-> 0,   \* index in flight when testing_cancelled was set
   signals |-> <<>>,       \* signals delivered during the case in flight
   closed |-> {},          \* handles asked to close during the case in flight
   envSteps |-> 0,         \* OS changes during the case in flight
   uac |-> FALSE,          \* line 317 answered True in the case in flight
   pausedTime |-> 0,       \* seconds spent paused inside the detection loop
   sinceCancel |-> 0,      \* seconds slept in a polling loop since the cancel
   progress |-> <<>>,      \* the calls of update_progress_window, in order
   denied |-> {},          \* AccessDenied answers logged in the case in flight
   gone |-> {},            \* processes found gone (NoSuchProcess) in the case
   closeRaised |-> {},     \* handles whose close() raised in the case in flight
   killCalled |-> FALSE,   \* line 394 was reached in the case in flight
   swept |-> FALSE]        \* lines 398-430 ran in the case in flight

(***************************************************************************)
(* Initial state                                                           *)
(***************************************************************************)
Init ==
  /\ \E m \in {<<{1}, {}>>, <<{1, 2}, {}>>, <<{1, 2}, {1}>>} :
       /\ procs = m[1]
       /\ wins = m[2]
  /\ pname = [p \in 1..4 |-> CatalogName[p]]
  /\ ppid = [p \in 1..4 |-> CatalogParent[p]]
  /\ testing_paused = FALSE
  /\ testing_cancelled = FALSE
  /\ pc = "rt_loop"
  /\ index = 1
  /\ results = <<>>
  /\ lt = NoLocals
  /\ elapsed = 0
  /\ killRet = NoCall
  /\ hist = NoHist

InFlight == pc \in {"lt_exists", "lt_loop", "lt_pause", "lt_sleep", "lt_headless",
                    "lt_settle", "lt_close", "lt_kill", "lt_sweep", "rt_append"}

PollingLoop == pc \in {"rt_pause", "lt_loop", "lt_pause", "lt_sleep"}

(***************************************************************************)
(* The user interface thread: the Pause/Resume and Cancel buttons.  The     *)
(* worker reads testing_paused at lines 314 and 507 only and               *)
(* testing_cancelled at lines 308 and 503 only, so a click is placed       *)
(* relative to those reads: a click during the teardown of a case is a     *)
(* click before its result is appended.                                    *)
(***************************************************************************)
pause_testing ==
  /\ pc \in {"rt_pause", "lt_pause"}
  /\ testing_paused' = ~testing_paused
  /\ UNCHANGED <<procs, pname, ppid, wins, testing_cancelled, pc, index, results, lt,
                 elapsed, killRet, hist>>

cancel_testing ==
  /\ pc \in {"rt_loop", "rt_pause", "lt_loop", "lt_pause", "lt_sleep", "rt_append"}
  /\ ~testing_cancelled
  /\ testing_cancelled' = TRUE
  /\ hist' = [hist EXCEPT !.cancelInFlight = IF InFlight \/ pc = "rt_pause" THEN index ELSE 0,
                          !.sinceCancel = 0]
  /\ UNCHANGED <<procs, pname, ppid, wins, testing_paused, pc, index, results, lt,
                 elapsed, killRet>>

(***************************************************************************)
(* The operating system: processes and windows come and go on their own.   *)
(* The worker looks at the process table and the window set at the         *)
(* baseline, at each poll, at the headless check, at the close, at the     *)
(* kill and at the sweep: a change is placed before one of those.          *)
(***************************************************************************)
EnvStepWithin(budget, ps, ws) ==
  /\ pc \in {"lt_exists", "lt_pause", "lt_headless", "lt_close", "lt_kill", "lt_sweep"}
  /\ hist.envSteps < budget
  /\ procs' = ps
  /\ wins' = OpenAmong(ws, ps)
  /\ hist' = [hist EXCEPT !.envSteps = @ + 1]
  /\ UNCHANGED <<pname, ppid, testing_paused, testing_cancelled, pc, index, results, lt,
                 elapsed, killRet>>

EnvStep(ps, ws) == EnvStepWithin(MaxEnvSteps, ps, ws)

EnvSpawn == \E p \in DOMAIN pname \ procs :
              /\ ppid[p] = 0 \/ ppid[p] \in procs
              /\ EnvStep(procs \cup {p}, wins)

EnvExit == \E p \in procs : EnvStep(procs \ {p}, wins)

EnvOpen == \E w \in Handles \ wins : wowner[w] \in procs /\ EnvStep(procs, wins \cup {w})

EnvClose == \E w \in wins : EnvStep(procs, wins \ {w})

(***************************************************************************)
(* run_tests (lines 502-517)                                               *)
(***************************************************************************)
\* time.sleep(n) inside a polling loop, as the observations see it
Slept(n) == [hist EXCEPT !.sinceCancel =
               IF testing_cancelled THEN IF @ + n > poll_interval THEN poll_interval + 1 ELSE @ + n
               ELSE 0]

LeftLoop(h) == [h EXCEPT !.sinceCancel = 0]

\* lines 502-505: next pair of the zip, and the cancel check
BreakOnCancel_Never == FALSE

BreakOnCancel_OrFailure ==
  testing_cancelled \/ (results # <<>> /\ results[Len(results)].Status # "Success")

BreakOnCancel == testing_cancelled

RunTestsNext ==
  /\ pc = "rt_loop"
  /\ pc' = IF index > NumCases \/ BreakOnCancel THEN "rt_done" ELSE "rt_pause"
  /\ hist' = LeftLoop(hist)
  /\ UNCHANGED <<procs, pname, ppid, wins, testing_paused, testing_cancelled, index,
                 results, lt, elapsed, killRet>>

\* lines 507-508: while self.testing_paused: time.sleep(1)
RunTestsPauseSleep ==
  /\ pc = "rt_pause"
  /\ testing_paused
  /\ hist' = Slept(1)
  /\ UNCHANGED <<procs, pname, ppid, wins, testing_paused, testing_cancelled, pc, index,
                 results, lt, elapsed, killRet>>

\* update_progress_window (lines 149-153), as the progress display sees it
update_progress_window_Twice(progress, current_app_index, app_name) ==
  progress \o <<[index |-> current_app_index, name |-> app_name],
                [index |-> current_app_index, name |-> app_name]>>

update_progress_window(progress, current_app_index, app_name) ==
  Append(progress, [index |-> current_app_index, name |-> app_name])

\* lines 510-515 and 251-279: the case starts
RunTestsStartCase ==
  /\ pc = "rt_pause"
  /\ ~testing_paused
  /\ pc' = "lt_exists"
  /\ lt' = [NoLocals EXCEPT
              !.actual_executable_name = ActualExecutableName(Lower(executables[index])),
              !.result = NewResult(shortcuts[index], executables[index])]
  /\ elapsed' = 0
  /\ hist' = [LeftLoop(hist) EXCEPT
                !.started = index,
                !.progress = update_progress_window(@, index, AppName(shortcuts[index])),
                !.cancelledAtStart = IF testing_cancelled THEN @ \cup {index} ELSE @]
  /\ UNCHANGED <<procs, pname, ppid, wins, testing_paused, testing_cancelled, index,
                 results, killRet>>

\* lines 516-517: self.results.append(result); time.sleep(1)
AppendResult_Prepend(rs, result) == <<result>> \o rs

AppendResult(rs, result) == Append(rs, result)

RunTestsAppend ==
  /\ pc = "rt_append"
  /\ results' = AppendResult(results, lt.result)
  /\ index' = index + 1
  /\ pc' = "rt_loop"
  /\ lt' = NoLocals
  /\ elapsed' = 0
  /\ hist' = [hist EXCEPT !.signals = <<>>, !.closed = {}, !.pausedTime = 0,
                          !.uac = FALSE, !.denied = {}, !.gone = {},
                          !.closeRaised = {}, !.killCalled = FALSE, !.swept = FALSE]
  /\ UNCHANGED <<procs, pname, ppid, wins, testing_paused, testing_cancelled, killRet>>

(***************************************************************************)
(* launch_and_test_application (lines 249-446)                             *)
(***************************************************************************)
Finish(result) ==
  /\ lt' = [lt EXCEPT !.result = result]
  /\ pc' = "rt_append"

\* lines 441-444: except Exception
Failed_Exception_Unset(result) == result

Failed_Exception(result) ==
  [result EXCEPT !.Status = "Failed", !.Remarks = "Exception occurred"]

\* lines 282-283: the result for a shortcut that does not exist
MissingResult_Exception(result) == Failed_Exception(result)

MissingResult(result) ==
  [result EXCEPT !.Status = "Failed", !.Remarks = "Shortcut not found"]

\* lines 281-285: os.path.exists(shortcut_path) answers False
ShortcutMissing ==
  /\ pc = "lt_exists"
  /\ Finish(MissingResult(lt.result))
  /\ hist' = [hist EXCEPT !.missing = @ \cup {index}]
  /\ UNCHANGED <<procs, pname, ppid, wins, testing_paused, testing_cancelled, index,
                 results, elapsed, killRet>>

\* lines 289-298: baseline snapshots, os.startfile, start_time
Launch ==
  /\ pc = "lt_exists"
  /\ lt' = [lt EXCEPT !.processes_before = procs, !.windows_before = wins]
  /\ hist' = [hist EXCEPT !.snapshots = @ \cup {index}, !.launched = @ \cup {index}]
  /\ elapsed' = 0
  /\ pc' = "lt_loop"
  /\ UNCHANGED <<procs, pname, ppid, wins, testing_paused, testing_cancelled, index,
                 results, killRet>>

\* os.startfile raises (OSError): caught at line 441
LaunchRaises ==
  /\ pc = "lt_exists"
  /\ Finish(Failed_Exception(lt.result))
  /\ hist' = [hist EXCEPT !.snapshots = @ \cup {index}, !.launched = @ \cup {index}]
  /\ UNCHANGED <<procs, pname, ppid, wins, testing_paused, testing_cancelled, index,
                 results, elapsed, killRet>>

\* line 307: while time.time() - start_time < max_wait_time
BudgetLeft_Always == TRUE

BudgetLeft == elapsed < max_wait_time

\* lines 310-311: the result of a case that sees testing_cancelled
CancelledResult_Unset(result) == result

CancelledResult(result) ==
  [result EXCEPT !.Status = "Cancelled", !.Remarks = "Testing cancelled by user."]

\* lines 307-312: the loop condition and the cancel check
DetectNext ==
  /\ pc = "lt_loop"
  /\ IF ~BudgetLeft THEN
       /\ pc' = "lt_headless"
       /\ lt' = lt
     ELSE IF testing_cancelled THEN
       Finish(CancelledResult(lt.result))
     ELSE
       /\ pc' = "lt_pause"
       /\ lt' = lt
  /\ hist' = LeftLoop(hist)
  /\ UNCHANGED <<procs, pname, ppid, wins, testing_paused, testing_cancelled, index,
                 results, elapsed, killRet>>

\* lines 314-315: while self.testing_paused: time.sleep(1)
DetectPauseSleep ==
  /\ pc = "lt_pause"
  /\ testing_paused
  /\ hist.pausedTime < MaxPausedTime
  /\ elapsed' = elapsed + 1
  /\ hist' = [Slept(1) EXCEPT !.pausedTime = @ + 1]
  /\ UNCHANGED <<procs, pname, ppid, wins, testing_paused, testing_cancelled, pc, index,
                 results, lt, killRet>>

\* handle_uac_prompt (lines 178-188)
\* (raises: the enumeration fails and line 186 answers False)
handle_uac_prompt(raises) == ~raises /\ \E p \in procs : Lower(pname[p]) = "consent.exe"

\* lines 319-325: the result of an intercepted case
UACResult_Success(result) ==
  [result EXCEPT !.Status = "Success",
                 !.AssociatedWindows = [text |-> "User Account Control", items |-> {}],
                 !.TerminatedExecutables = JoinOrNone(lt.terminated_executables),
                 !.ClosedWindows = JoinOrNone(lt.closed_windows)]

UACResult(result) ==
  [result EXCEPT !.Status = "Manual Intervention Required",
                 !.Remarks = "Application triggered UAC prompt.",
                 !.AssociatedWindows = [text |-> "User Account Control", items |-> {}],
                 !.TerminatedExecutables = JoinOrNone(lt.terminated_executables),
                 !.ClosedWindows = JoinOrNone(lt.closed_windows)]

\* lines 317-326
DetectUAC ==
  /\ pc = "lt_pause"
  /\ ~testing_paused
  /\ handle_uac_prompt(FALSE)
  /\ Finish(UACResult(lt.result))
  /\ hist' = [LeftLoop(hist) EXCEPT !.uac = TRUE]
  /\ UNCHANGED <<procs, pname, ppid, wins, testing_paused, testing_cancelled, index,
                 results, elapsed, killRet>>

\* lines 328-341: the new windows that pass the test of line 340-341
MatchingWindows_IgnoreBaseline ==
  {h \in wins :
     /\ wowner[h] \in procs
     /\ wowner[h] \notin ExeDenied
     /\ \/ Lower(pname[wowner[h]]) = Lower(lt.actual_executable_name)
        \/ TitleMatches(lt.result.Name, wtitle[h])}

MatchingWindows ==
  {h \in wins \ lt.windows_before :
     /\ wowner[h] \in procs
     /\ wowner[h] \notin ExeDenied
     /\ \/ Lower(pname[wowner[h]]) = Lower(lt.actual_executable_name)
        \/ TitleMatches(lt.result.Name, wtitle[h])}

\* lines 332-353: a window is found (the set is iterated in any order)
DetectFound ==
  /\ pc = "lt_pause"
  /\ ~testing_paused
  /\ \E raises \in BOOLEAN : ~handle_uac_prompt(raises)
  /\ \E h \in MatchingWindows :
       lt' = [lt EXCEPT !.application_window_found = TRUE,
                        !.expected_window = h,
                        !.main_app_pid = wowner[h],
                        !.associated_window_titles = Append(@, wtitle[h])]
  /\ pc' = "lt_settle"
  /\ hist' = LeftLoop(hist)
  /\ UNCHANGED <<procs, pname, ppid, wins, testing_paused, testing_cancelled, index,
                 results, elapsed, killRet>>

\* lines 328-355: nothing matches in this poll
DetectMiss ==
  /\ pc = "lt_pause"
  /\ ~testing_paused
  /\ \E raises \in BOOLEAN : ~handle_uac_prompt(raises)
  /\ MatchingWindows = {}
  /\ pc' = "lt_sleep"
  /\ UNCHANGED <<procs, pname, ppid, wins, testing_paused, testing_cancelled, index,
                 results, lt, elapsed, killRet, hist>>

\* Desktop(backend="uia").windows() raises: caught at line 441
DetectRaises ==
  /\ pc = "lt_pause"
  /\ ~testing_paused
  /\ \E raises \in BOOLEAN : ~handle_uac_prompt(raises)
  /\ Finish(Failed_Exception(lt.result))
  /\ hist' = LeftLoop(hist)
  /\ UNCHANGED <<procs, pname, ppid, wins, testing_paused, testing_cancelled, index,
                 results, elapsed, killRet>>

\* line 355: time.sleep(poll_interval)
DetectSleep ==
  /\ pc = "lt_sleep"
  /\ elapsed' = elapsed + poll_interval
  /\ hist' = Slept(poll_interval)
  /\ pc' = "lt_loop"
  /\ UNCHANGED <<procs, pname, ppid, wins, testing_paused, testing_cancelled, index,
                 results, lt, killRet>>

\* lines 357-378: no window was found; look for a background process
HeadlessCandidates_CaseSensitive ==
  {p \in procs \ lt.processes_before : pname[p] = lt.actual_executable_name}

HeadlessCandidates ==
  {p \in procs \ lt.processes_before :
     Lower(pname[p]) = Lower(lt.actual_executable_name)}

\* lines 365-372: the candidates that exited since the snapshot of line 360;
\* psutil.Process(pid) raises NoSuchProcess for them and the loop goes on
HeadlessVanished(vanished) ==
  /\ procs' = procs \ vanished
  /\ wins' = OpenAmong(wins, procs \ vanished)
  /\ hist' = [hist EXCEPT !.gone = @ \cup vanished]

HeadlessFound ==
  /\ pc = "lt_headless"
  /\ \E vanished \in SUBSET HeadlessCandidates :
     \E p \in HeadlessCandidates \ vanished :
       /\ HeadlessVanished(vanished)
       /\ lt' = [lt EXCEPT !.main_app_pid = p]
  /\ pc' = "lt_settle"
  /\ UNCHANGED <<pname, ppid, testing_paused, testing_cancelled, index,
                 results, elapsed, killRet>>

\* lines 374-378: the result when no candidate process is found
NothingDetectedResult_Success(result) ==
  [result EXCEPT !.Status = "Success", !.Remarks = "Application tested successfully."]

NothingDetectedResult(result) ==
  [result EXCEPT
     !.Status = "Failed",
     !.Remarks = "Application did not open any windows or detectable processes."]

HeadlessNone ==
  /\ pc = "lt_headless"
  /\ HeadlessVanished(HeadlessCandidates)
  /\ Finish(NothingDetectedResult(lt.result))
  /\ UNCHANGED <<pname, ppid, testing_paused, testing_cancelled, index,
                 results, elapsed, killRet>>

\* line 381: time.sleep(additional_wait_time)
Settle_SkipClose ==
  /\ pc = "lt_settle"
  /\ pc' = "lt_kill"
  /\ UNCHANGED <<procs, pname, ppid, wins, testing_paused, testing_cancelled, index,
                 results, lt, elapsed, killRet, hist>>

Settle ==
  /\ pc = "lt_settle"
  /\ pc' = "lt_close"
  /\ UNCHANGED <<procs, pname, ppid, wins, testing_paused, testing_cancelled, index,
                 results, lt, elapsed, killRet, hist>>

\* What the window answers to close() and to the window_text() after it:
\*   raises - close() raises (the window is gone, or refuses)
\*   closed - the window closes and window_text() still answers
\*   lost   - the window closes and window_text() raises
\*   stays  - close() returns, the window stays open (it asks a question)
CloseOutcomes(h) == IF h \in wins THEN {"raises", "closed", "lost", "stays"} ELSE {"raises"}

\* lines 389-392: where the case goes after the close, whatever it answered
AfterClose_AbortOnRaise(o) == IF o = "raises" THEN "rt_append" ELSE "lt_kill"

AfterClose(o) == "lt_kill"

\* lines 384-390
CloseWindow ==
  /\ pc = "lt_close"
  /\ IF lt.application_window_found THEN
       \E o \in CloseOutcomes(lt.expected_window) :
         /\ wins' = IF o \in {"closed", "lost"} THEN wins \ {lt.expected_window} ELSE wins
         /\ lt' = [lt EXCEPT !.closed_windows =
                      IF o \in {"closed", "stays"} THEN @ \cup {wtitle[lt.expected_window]} ELSE @]
         /\ hist' = [hist EXCEPT
                       !.closed = IF o # "raises" THEN @ \cup {lt.expected_window} ELSE @,
                       !.closeRaised = IF o = "raises" THEN @ \cup {lt.expected_window}
                                       ELSE @]
         /\ pc' = AfterClose(o)
     ELSE /\ UNCHANGED <<wins, lt, hist>>
          /\ pc' = "lt_kill"
  /\ UNCHANGED <<procs, pname, ppid, testing_paused, testing_cancelled, index,
                 results, elapsed, killRet>>

\* lines 393-395
KillTree ==
  /\ pc = "lt_kill"
  /\ IF lt.main_app_pid # 0 THEN
       \E oc \in [SeqRange(Children(lt.main_app_pid)) -> Outcomes] :
       \E koc \in [SeqRange(StillAlive(Children(lt.main_app_pid), oc)) -> KillOutcomes] :
       \E roc \in Outcomes :
       \E k \in {kill_process_tree(lt.main_app_pid, TRUE, oc, koc, roc)} :
         /\ procs' = procs \ k.dead
         /\ wins' = OpenAmong(wins, procs \ k.dead)
         /\ lt' = [lt EXCEPT !.terminated_executables = @ \cup SeqRange(k.ret)]
         /\ hist' = [hist EXCEPT !.signals = @ \o k.sig,
                                 !.denied = @ \cup k.denied,
                                 !.gone = @ \cup k.gone,
                                 !.killCalled = TRUE]
     ELSE UNCHANGED <<procs, wins, lt, hist>>
  /\ pc' = "lt_sweep"
  /\ UNCHANGED <<pname, ppid, testing_paused, testing_cancelled, index, results, elapsed,
                 killRet>>

\* lines 415-416: the residual processes whose terminate() is denied
SweepDenied(new_pids, oc) ==
  {<<p, "terminate">> : p \in {p \in SeqRange(new_pids) :
                                  oc[p] = "denied" /\ ~is_system_process(pname[p])}}

\* lines 401-416: the residual processes that are sent terminate()
SweepTerminated_All(new_pids, oc) ==
  SelectSeq(new_pids, LAMBDA p : oc[p] # "gone" /\ oc[p] # "denied")

SweepTerminated_None(new_pids, oc) == <<>>

SweepTerminated_StopAtDenied(new_pids, oc) ==
  SelectSeq(new_pids, LAMBDA p : /\ oc[p] # "gone"
                                 /\ ~is_system_process(pname[p])
                                 /\ oc[p] # "denied"
                                 /\ \A q \in SeqRange(new_pids) :
                                      q < p => oc[q] # "denied")

SweepTerminated(new_pids, oc) ==
  SelectSeq(new_pids, LAMBDA p : /\ oc[p] # "gone"
                                 /\ ~is_system_process(pname[p])
                                 /\ oc[p] # "denied")

\* lines 419-430: the residual windows that are closed and recorded
SweepClosed_StopAtRaise(new_windows, wc) ==
  {h \in new_windows : /\ wc[h] \in {"closed", "stays"}
                       /\ \A g \in new_windows : g < h => wc[g] # "raises"}

SweepClosed(new_windows, wc) ==
  {h \in new_windows : wc[h] \in {"closed", "stays"}}

\* lines 433-439
SuccessResult(result, assoc, terminated, closed) ==
  [result EXCEPT !.Status = "Success",
                 !.Remarks = "Application tested successfully.",
                 !.AssociatedWindows = IF assoc = <<>> THEN [text |-> "None", items |-> {}]
                                       ELSE [text |-> "joined", items |-> SeqRange(assoc)],
                 !.TerminatedExecutables = JoinOrNone(terminated),
                 !.ClosedWindows = JoinOrNone(closed)]

\* lines 398-439: the residual sweep and the result
Sweep ==
  /\ pc = "lt_sweep"
  /\ \E new_pids \in {SortedSeq(procs \ lt.processes_before)} :
     \E oc \in [SeqRange(new_pids) -> Outcomes] :
     \E sent \in {SweepTerminated(new_pids, oc)} :
     \E alive \in {procs \ ({p \in SeqRange(new_pids) : oc[p] = "gone"}
                             \cup {p \in SeqRange(sent) : oc[p] = "exits"})} :
     \E new_windows \in {OpenAmong(wins, alive) \ lt.windows_before} :
     \E wc \in [new_windows -> {"raises", "closed", "stays"}] :
     \E closed \in {SweepClosed(new_windows, wc)} :
     \E terminated \in {lt.terminated_executables \cup {pname[p] : p \in SeqRange(sent)}} :
     \E all_closed \in {lt.closed_windows \cup {wtitle[h] : h \in closed}} :
       /\ procs' = alive
       /\ wins' = OpenAmong(wins, alive) \ {h \in new_windows : wc[h] = "closed"}
       /\ hist' = [hist EXCEPT
                     !.signals = @ \o [i \in 1..Len(sent) |-> <<sent[i], "terminate">>],
                     !.closed = @ \cup closed,
                     !.denied = @ \cup SweepDenied(new_pids, oc),
                     !.gone = @ \cup {p \in SeqRange(new_pids) : oc[p] = "gone"},
                     !.closeRaised = @ \cup {h \in new_windows : wc[h] = "raises"},
                     !.swept = TRUE]
       /\ lt' = [lt EXCEPT
                   !.terminated_executables = terminated,
                   !.closed_windows = all_closed,
                   !.result = SuccessResult(lt.result, lt.associated_window_titles,
                                            terminated, all_closed)]
  /\ pc' = "rt_append"
  /\ UNCHANGED <<pname, ppid, testing_paused, testing_cancelled, index, results,
                 elapsed, killRet>>

\* a snapshot of the teardown raises: caught at line 441
TeardownRaises ==
  /\ pc \in {"lt_headless", "lt_sweep"}
  /\ Finish(Failed_Exception(lt.result))
  /\ UNCHANGED <<procs, pname, ppid, wins, testing_paused, testing_cancelled, index,
                 results, elapsed, killRet, hist>>

(***************************************************************************)
(* Specification of a run of the tester.                                   *)
(***************************************************************************)
Next ==
  \/ pause_testing
  \/ cancel_testing
  \/ EnvSpawn
  \/ EnvExit
  \/ EnvOpen
  \/ EnvClose
  \/ RunTestsNext
  \/ RunTestsPauseSleep
  \/ RunTestsStartCase
  \/ RunTestsAppend
  \/ ShortcutMissing
  \/ Launch
  \/ LaunchRaises
  \/ DetectNext
  \/ DetectPauseSleep
  \/ DetectUAC
  \/ DetectFound
  \/ DetectMiss
  \/ DetectRaises
  \/ DetectSleep
  \/ HeadlessFound
  \/ HeadlessNone
  \/ Settle
  \/ CloseWindow
  \/ KillTree
  \/ Sweep
  \/ TeardownRaises

Spec == Init /\ [][Next]_vars

(***************************************************************************)
(* The run under its scheduling.  The worker thread runs: a step of it     *)
(* that is possible again and again is taken (the two pause loops read     *)
(* testing_paused once per sleep, so a resume that lasts is seen).  The    *)
(* user resumes after every pause.  The cancel click and the operating     *)
(* system are under no obligation.                                         *)
(***************************************************************************)
Resume == testing_paused /\ pause_testing

WorkerProgress ==
  \/ RunTestsNext
  \/ RunTestsStartCase
  \/ RunTestsAppend
  \/ ShortcutMissing
  \/ Launch
  \/ LaunchRaises
  \/ DetectNext
  \/ DetectUAC
  \/ DetectFound
  \/ DetectMiss
  \/ DetectRaises
  \/ DetectSleep
  \/ HeadlessFound
  \/ HeadlessNone
  \/ Settle
  \/ CloseWindow
  \/ KillTree
  \/ Sweep
  \/ TeardownRaises

SpecLive == Spec /\ WF_vars(Resume) /\ SF_vars(WorkerProgress)

(***************************************************************************)
(* Specification of kill_process_tree alone: one call on a process tree    *)
(* of any shape, with any placement of the names and any OS answers.       *)
(***************************************************************************)
TreeNames == {"App.exe", "SvcHost.exe"}

InitKill ==
  /\ pname \in [1..MaxTree -> TreeNames]
  /\ ppid \in {f \in [1..MaxTree -> 0..(MaxTree - 1)] : \A p \in 1..MaxTree : f[p] < p}
  /\ procs \in {(1..MaxTree) \ {d} : d \in 0..MaxTree}
  /\ wins = {}
  /\ testing_paused = FALSE
  /\ testing_cancelled = FALSE
  /\ pc = "kill_call"
  /\ index = 1
  /\ results = <<>>
  /\ lt = NoLocals
  /\ elapsed = 0
  /\ killRet = NoCall
  /\ hist = NoHist

KillCall ==
  /\ pc = "kill_call"
  /\ \E pid \in 1..MaxTree :
     \E including_parent \in BOOLEAN :
     \E oc \in [SeqRange(Children(pid)) -> Outcomes] :
     \E koc \in [SeqRange(StillAlive(Children(pid), oc)) -> KillOutcomes] :
     \E roc \in (IF including_parent THEN Outcomes ELSE {"survives"}) :
       /\ killRet' = [pid |-> pid, including_parent |-> including_parent,
                      before |-> procs]
                     @@ kill_process_tree(pid, including_parent, oc, koc, roc)
       /\ procs' = procs \ killRet'.dead
  /\ pc' = "kill_done"
  /\ UNCHANGED <<pname, ppid, wins, testing_paused, testing_cancelled, index, results,
                 lt, elapsed, hist>>

NextKill == KillCall

SpecKill == InitKill /\ [][NextKill]_vars

(***************************************************************************)
(* Specification of one case alone, on a machine where more happens: the   *)
(* first case of the run from the call of launch_and_test_application to   *)
(* its return, with no click on the buttons.                               *)
(***************************************************************************)
CasePids == {1, 2, 3, 6}

InitCase ==
  /\ procs \in {{}, {1}, {1, 2, 3}}
  /\ wins = {}
  /\ pname = [p \in CasePids |-> CatalogName[p]]
  /\ ppid = [p \in CasePids |-> CatalogParent[p]]
  /\ testing_paused = FALSE
  /\ testing_cancelled = FALSE
  /\ pc = "lt_exists"
  /\ index = 1
  /\ results = <<>>
  /\ lt = [NoLocals EXCEPT
             !.actual_executable_name = ActualExecutableName(Lower(executables[1])),
             !.result = NewResult(shortcuts[1], executables[1])]
  /\ elapsed = 0
  /\ killRet = NoCall
  /\ hist = [NoHist EXCEPT
               !.started = 1,
               !.progress = update_progress_window(@, 1, AppName(shortcuts[1]))]

CaseSpawn == \E p \in DOMAIN pname \ procs :
               /\ ppid[p] = 0 \/ ppid[p] \in procs
               /\ EnvStepWithin(MaxCaseEnvSteps, procs \cup {p}, wins)

CaseExit == \E p \in procs : EnvStepWithin(MaxCaseEnvSteps, procs \ {p}, wins)

CaseOpen == \E w \in Handles \ wins :
              /\ wowner[w] \in procs
              /\ EnvStepWithin(MaxCaseEnvSteps, procs, wins \cup {w})

CaseClose == \E w \in wins : EnvStepWithin(MaxCaseEnvSteps, procs, wins \ {w})

NextCase ==
  \/ CaseSpawn
  \/ CaseExit
  \/ CaseOpen
  \/ CaseClose
  \/ Launch
  \/ DetectNext
  \/ DetectFound
  \/ DetectMiss
  \/ DetectSleep
  \/ HeadlessFound
  \/ HeadlessNone
  \/ Settle
  \/ CloseWindow
  \/ KillTree
  \/ Sweep

SpecCase == InitCase /\ [][NextCase]_vars

(***************************************************************************)
(* load_files (lines 62-103) and its caller main (lines 557-563): one call *)
(* on any two files.  A line is the sequence of its words; the empty       *)
(* sequence is a line that strip() leaves empty.                           *)
(***************************************************************************)
ShortcutLines == {<<>>, <<"A.lnk">>, <<"B.lnk">>, <<"[Folder]", "Games">>}

ExecutableLines == {<<>>, <<"a.exe">>}

SeqsUpTo(S, n) == UNION {[1..k -> S] : k \in 0..n}

\* [line.strip() for line in f if line.strip()]
NonBlank(lines) == SelectSeq(lines, LAMBDA l : l # <<>>)

\* shortcut.startswith("[Folder]")
StartsWithFolder(line) == Len(line) > 0 /\ line[1] = "[Folder]"

\* zip(shortcuts, executables): pairs up to the end of the shorter list
Zip(xs, ys) == [i \in 1..Min({Len(xs), Len(ys)}) |-> <<xs[i], ys[i]>>]

\* lines 82-85: the pairs whose shortcut is not a folder entry
FilteredPairs(xs, ys) == SelectSeq(Zip(xs, ys), LAMBDA pr : ~StartsWithFolder(pr[1]))

NotLoaded == [ret |-> FALSE, stored |-> FALSE, shortcuts |-> <<>>, executables |-> <<>>]

\* load_files: the value returned, and self.shortcuts / self.executables
\* after the call (set in __init__ to the empty lists)
load_files(shortcuts_exists, executables_exists, shortcuts_lines, executables_lines) ==
  IF ~shortcuts_exists \/ ~executables_exists THEN NotLoaded
  ELSE LET pairs == FilteredPairs(NonBlank(shortcuts_lines), NonBlank(executables_lines))
           filtered_shortcuts == [i \in 1..Len(pairs) |-> pairs[i][1]]
           filtered_executables == [i \in 1..Len(pairs) |-> pairs[i][2]]
       IN  IF Len(filtered_shortcuts) # Len(filtered_executables) THEN NotLoaded
           ELSE [ret |-> TRUE, stored |-> TRUE,
                 shortcuts |-> filtered_shortcuts, executables |-> filtered_executables]

(***************************************************************************)
(* The two collectors that write the files.  script1 writes one line per   *)
(* Start Menu entry: "[Folder] <path>" or the path of a .lnk file.         *)
(* script2 reads that file and writes one line per non-blank line of it:   *)
(* the folder line itself, or the target of the shortcut, which is the     *)
(* empty string when the target is empty or cannot be resolved.            *)
(***************************************************************************)
Script1Lines == {l \in ShortcutLines : l # <<>>}

ShortcutFiles == {l \in Script1Lines : ~StartsWithFolder(l)}

Targets == {<<>>, <<"a.exe">>, <<"b.exe">>}

NoTargets == [s \in ShortcutFiles |-> <<>>]

\* script2 get_shortcut_target (lines 18-25): shortcut.Targetpath, or ''
get_shortcut_target(targets, shortcut_path) == targets[shortcut_path]

\* script2 main (lines 46-57) after load_shortcuts_from_file (lines 14-15):
\* the lines of ExecutablePaths.txt
collect_executables(shortcuts_lines, targets) ==
  LET kept == NonBlank(shortcuts_lines)
  IN  [i \in 1..Len(kept) |->
         IF StartsWithFolder(kept[i]) THEN kept[i]
         ELSE get_shortcut_target(targets, kept[i])]

\* lines 558-562 and 502: the cases run_tests goes through after the load
CasesRun(loaded) ==
  IF loaded.ret THEN Len(Zip(loaded.shortcuts, loaded.executables)) ELSE 0

InitLoad ==
  /\ procs = {}
  /\ pname = <<>>
  /\ ppid = <<>>
  /\ wins = {}
  /\ testing_paused = FALSE
  /\ testing_cancelled = FALSE
  /\ index = 1
  /\ results = <<>>
  /\ \/ /\ pc = "load_call"
        /\ \E se \in BOOLEAN, ee \in BOOLEAN :
           \E sl \in SeqsUpTo(ShortcutLines, MaxLines),
              el \in SeqsUpTo(ExecutableLines, MaxLines) :
             lt = [shortcuts_exists |-> se, executables_exists |-> ee,
                   shortcuts_lines |-> sl, executables_lines |-> el,
                   targets |-> NoTargets, collected |-> FALSE,
                   loaded |-> NotLoaded, cases |-> 0]
     \/ /\ pc = "collect_call"
        /\ \E sl \in SeqsUpTo(Script1Lines, MaxLines), tg \in [ShortcutFiles -> Targets] :
             lt = [shortcuts_exists |-> TRUE, executables_exists |-> FALSE,
                   shortcuts_lines |-> sl, executables_lines |-> <<>>,
                   targets |-> tg, collected |-> FALSE,
                   loaded |-> NotLoaded, cases |-> 0]
  /\ elapsed = 0
  /\ killRet = NoCall
  /\ hist = NoHist

\* script2 run on the file of script1: ExecutablePaths.txt is written
CollectCall ==
  /\ pc = "collect_call"
  /\ lt' = [lt EXCEPT !.executables_exists = TRUE,
                      !.executables_lines = collect_executables(lt.shortcuts_lines, lt.targets),
                      !.collected = TRUE]
  /\ pc' = "load_call"
  /\ UNCHANGED <<procs, pname, ppid, wins, testing_paused, testing_cancelled, index,
                 results, elapsed, killRet, hist>>

LoadCall ==
  /\ pc = "load_call"
  /\ LET loaded == load_files(lt.shortcuts_exists, lt.executables_exists,
                              lt.shortcuts_lines, lt.executables_lines)
     IN  lt' = [lt EXCEPT !.loaded = loaded, !.cases = CasesRun(loaded)]
  /\ pc' = "load_done"
  /\ UNCHANGED <<procs, pname, ppid, wins, testing_paused, testing_cancelled, index,
                 results, elapsed, killRet, hist>>

NextLoad ==
  \/ CollectCall
  \/ LoadCall

SpecLoad == InitLoad /\ [][NextLoad]_vars

(***************************************************************************)
(* Properties                                                              *)
(***************************************************************************)
\* a name of the protected list, whatever its letter case
ProtectedName(n) == \E e \in ConfigExcluded : Lower(n) = Lower(e)

TerminalStatuses == {"Success", "Mostly Pass", "Manual Intervention Required",
                     "Cancelled", "Failed"}

\* C1: the i-th result belongs to the i-th case, and the results are exactly
\* those of the cases started: one per started case once its result is
\* appended (the case in flight has none yet), none for any other case.
C1_ResultsInInputOrder ==
  /\ \A i \in 1..Len(results) : /\ results[i].ShortcutPath = shortcuts[i]
                                /\ results[i].Name = AppName(shortcuts[i])
  /\ Len(results) = IF InFlight THEN hist.started - 1 ELSE hist.started
  /\ hist.started <= NumCases

C1_Witness ==
  /\ pc = "rt_done"
  /\ Len(results) = 2
  /\ results[1].ShortcutPath # results[2].ShortcutPath

\* C2: every result handed back by launch_and_test_application, and so every
\* result of the list, carries one of the terminal statuses, never Not Tested.
C2_TerminalStatus ==
  /\ pc = "rt_append" => lt.result.Status \in TerminalStatuses
  /\ \A i \in 1..Len(results) : results[i].Status \in TerminalStatuses

C2_Witness ==
  /\ Len(results) = 2
  /\ results[1].Status = "Success"
  /\ results[2].Status = "Failed"
  /\ results[2].Remarks = "Exception occurred"

\* C3: kill_process_tree returns no protected name and signals no protected
\* process, wherever the protected processes sit in the tree.
C3_KillSparesProtected ==
  pc = "kill_done" =>
    /\ \A i \in 1..Len(killRet.ret) : ~ProtectedName(killRet.ret[i])
    /\ \A i \in 1..Len(killRet.sig) : ~ProtectedName(pname[killRet.sig[i][1]])

C3_Witness ==
  /\ pc = "kill_done"
  /\ killRet.pid = 1 /\ killRet.before = {1, 2, 3}
  /\ ppid[2] = 1 /\ ppid[3] = 2
  /\ ~ProtectedName(pname[1]) /\ ~ProtectedName(pname[2]) /\ ProtectedName(pname[3])
  /\ Len(killRet.ret) = 2

\* C4: a call on a live root with a protected name signals nothing, leaves
\* the process table as it was and returns the empty list.
C4_ProtectedRootUntouched ==
  (pc = "kill_done" /\ killRet.pid \in killRet.before /\ ProtectedName(pname[killRet.pid])) =>
    /\ killRet.ret = <<>>
    /\ killRet.sig = <<>>
    /\ procs = killRet.before

C4_Witness ==
  /\ pc = "kill_done"
  /\ killRet.pid = 1 /\ killRet.including_parent /\ killRet.before = {1, 2, 3}
  /\ ProtectedName(pname[1]) /\ ~ProtectedName(pname[2])
  /\ ppid[2] = 1

\* C5 (as claimed): a case that starts with testing_cancelled set is never
\* launched, and its result is Cancelled.
C5_CancelledBeforeStartNotLaunched ==
  \A i \in hist.cancelledAtStart :
    /\ i \notin hist.launched
    /\ i <= Len(results) => results[i].Status = "Cancelled"

\* C6: once testing_cancelled is set while case k is in flight, no later case
\* is started, launched or given a result, and the run ends with k results.
C6_CancelInFlightStopsRun ==
  hist.cancelInFlight # 0 =>
    /\ hist.started <= hist.cancelInFlight
    /\ \A i \in hist.launched : i <= hist.cancelInFlight
    /\ Len(results) <= hist.cancelInFlight
    /\ pc = "rt_done" => Len(results) = hist.cancelInFlight

C6_Witness ==
  /\ hist.cancelInFlight = 1
  /\ pc = "rt_done"
  /\ Len(results) = 1
  /\ results[1].Status = "Success"

\* C7 (as claimed): when the detection loop gives up, the time it spent
\* polling, pauses not counted, is at least max_wait_time.
C7_PauseDoesNotConsumeBudget ==
  pc = "lt_headless" => elapsed - hist.pausedTime >= max_wait_time

\* C8 (as claimed): a worker inside a polling loop with testing_cancelled set
\* has not slept more than one poll interval since the flag was set.
C8_CancelSeenWithinOnePoll ==
  (testing_cancelled /\ PollingLoop) => hist.sinceCancel <= poll_interval

\* C9: a case whose shortcut does not exist ends Failed with the not-found
\* remark, with no snapshot taken, no launch, nothing terminated or closed.
C9_MissingShortcutFailsFast ==
  /\ (pc = "rt_append" /\ index \in hist.missing) =>
       /\ lt.result.Status = "Failed"
       /\ lt.result.Remarks = "Shortcut not found"
       /\ lt.processes_before = {} /\ lt.windows_before = {}
       /\ hist.signals = <<>> /\ hist.closed = {}
  /\ \A i \in hist.missing :
       /\ i \notin hist.snapshots
       /\ i \notin hist.launched
       /\ i <= Len(results) => /\ results[i].Status = "Failed"
                               /\ results[i].Remarks = "Shortcut not found"

C9_Witness ==
  /\ pc = "rt_append"
  /\ index = 2
  /\ hist.missing = {2}
  /\ hist.launched = {1}
  /\ procs # {1} /\ procs # {1, 2}

\* C10: a case in which the consent process was seen at a poll ends with
\* Manual Intervention Required, reports the consent dialog marker, and
\* has terminated and closed nothing.
C10_UACIsTerminal ==
  (pc = "rt_append" /\ hist.uac) =>
    /\ lt.result.Status = "Manual Intervention Required"
    /\ lt.result.AssociatedWindows.text = "User Account Control"
    /\ lt.result.TerminatedExecutables.text = "None"
    /\ lt.result.ClosedWindows.text = "None"
    /\ hist.signals = <<>>
    /\ hist.closed = {}

C10_Witness ==
  /\ pc = "rt_append"
  /\ hist.uac
  /\ \E p \in procs : pname[p] = "Consent.exe"
  /\ elapsed > 0

\* C11: the step in which the detection loop sees testing_cancelled ends the
\* case at once with status Cancelled: it leaves the process table and the
\* window set as they are, and the case has signalled no process, closed no
\* window and recorded nothing as terminated or closed.
C11_CancelledSkipsTeardown ==
  [][(pc = "lt_loop" /\ BudgetLeft /\ testing_cancelled) =>
       /\ pc' = "rt_append"
       /\ lt'.result.Status = "Cancelled"
       /\ procs' = procs /\ wins' = wins
       /\ hist'.signals = <<>> /\ hist'.closed = {}
       /\ lt'.terminated_executables = {} /\ lt'.closed_windows = {}
       /\ lt'.result.TerminatedExecutables = Blank
       /\ lt'.result.ClosedWindows = Blank]_vars

C11_Witness ==
  /\ pc = "rt_append"
  /\ lt.result.Status = "Cancelled"
  /\ elapsed > 0
  /\ procs \ lt.processes_before # {}

\* C12 (as claimed): when the detection loop gives up with new windows open
\* and none of them matching, and no candidate process either, the case ends
\* Mostly Pass, the new windows are its associated windows and each of them
\* was asked to close.
C12_UnmatchedWindowsMostlyPass ==
  [][(/\ pc = "lt_headless"
      /\ wins \ lt.windows_before # {}
      /\ MatchingWindows = {}
      /\ pc' = "rt_append"
      /\ lt'.result.Remarks # "Exception occurred") =>
       /\ lt'.result.Status = "Mostly Pass"
       /\ lt'.result.AssociatedWindows.items = {wtitle[h] : h \in wins \ lt.windows_before}
       /\ wins \ lt.windows_before \subseteq hist'.closed]_vars

\* the case in flight was detected by its process alone (lines 357-372)
HeadlessDetected == ~lt.application_window_found /\ lt.main_app_pid # 0

\* a process that is not in the baseline and bears the aliased expected name
ExpectedNewProcesses ==
  {p \in procs \ lt.processes_before :
     Lower(pname[p]) = Lower(ActualExecutableName(lt.result.ExpectedExecutable))}

\* C13: when the detection loop gives up with no new window and a new process
\* bearing the aliased expected name (whatever the letter case) is still
\* running when the loop of lines 363-372 looks it up, such a process
\* becomes the detected process and the case goes on to the teardown; from
\* there the close step, kill_process_tree and the sweep run in that order,
\* and unless a step raises the case ends Success with no associated window.
C13_HeadlessProcessSucceeds ==
  /\ [][(/\ pc = "lt_headless"
         /\ wins \ lt.windows_before = {}
         /\ ExpectedNewProcesses \cap procs' # {}
         /\ pc' # "lt_headless"
         /\ lt'.result.Remarks # "Exception occurred") =>
          /\ pc' = "lt_settle"
          /\ lt'.main_app_pid \in ExpectedNewProcesses \cap procs'
          /\ ~lt'.application_window_found]_vars
  /\ [][(HeadlessDetected /\ pc' # pc) =>
          /\ pc = "lt_settle" => pc' = "lt_close"
          /\ pc = "lt_close" => pc' = "lt_kill" /\ wins' = wins /\ hist'.closed = hist.closed
          /\ pc = "lt_kill" => pc' = "lt_sweep"
          /\ pc = "lt_sweep" => /\ pc' = "rt_append"
                                /\ \/ lt'.result.Remarks = "Exception occurred"
                                   \/ /\ lt'.result.Status = "Success"
                                      /\ lt'.result.AssociatedWindows.text = "None"]_vars

C13_Witness ==
  /\ pc = "rt_append"
  /\ HeadlessDetected
  /\ lt.result.Status = "Success"
  /\ wins \ lt.windows_before = {}
  /\ lt.main_app_pid \notin procs
  /\ "App.exe" \in lt.result.TerminatedExecutables.items

\* C14: when the detection loop gives up with no new window and no new
\* process bearing the aliased expected name, the case ends Failed, its
\* remarks say that no window or process was observed (or hold the error
\* text when the process snapshot raises), and nothing was signalled,
\* closed or recorded as terminated or closed.
C14_NothingObservedFails ==
  [][(/\ pc = "lt_headless"
      /\ wins \ lt.windows_before = {}
      /\ ExpectedNewProcesses = {}
      /\ pc' # "lt_headless") =>
       /\ pc' = "rt_append"
       /\ lt'.result.Status = "Failed"
       /\ lt'.result.Remarks \in
            {"Application did not open any windows or detectable processes.",
             "Exception occurred"}
       /\ procs' = procs /\ wins' = wins
       /\ hist'.signals = <<>> /\ hist'.closed = {}
       /\ lt'.terminated_executables = {} /\ lt'.closed_windows = {}
       /\ lt'.result.TerminatedExecutables = Blank
       /\ lt'.result.ClosedWindows = Blank]_vars

C14_Witness ==
  /\ pc = "rt_append"
  /\ lt.result.Status = "Failed"
  /\ lt.result.Remarks = "Application did not open any windows or detectable processes."
  /\ wins \ lt.windows_before = {}
  /\ procs \ lt.processes_before # {}
  /\ elapsed >= max_wait_time
  /\ hist.pausedTime = 0
  /\ ~testing_cancelled

\* a window whose owning process answers the executable-path query with the
\* aliased expected name (line 340)
ExeOwned(h) ==
  /\ wowner[h] \in procs
  /\ wowner[h] \notin ExeDenied
  /\ Lower(pname[wowner[h]]) = Lower(ActualExecutableName(lt.result.ExpectedExecutable))

\* C15 (as claimed): when the poll that finds the window sees a new window
\* owned by the aliased expected executable, the window and the process
\* selected are those of such a window, whatever else matches by title.
C15_ExeMatchIsDecisive ==
  (/\ pc = "lt_settle"
   /\ lt.application_window_found
   /\ \E h \in wins \ lt.windows_before : ExeOwned(h)) =>
     /\ ExeOwned(lt.expected_window)
     /\ lt.main_app_pid = wowner[lt.expected_window]

\* C16 (as claimed): in a poll where no new window is owned by the aliased
\* expected executable and some new window carries the display name in its
\* title (whatever the letter case, and whether or not the owner answers the
\* executable-path query), a window with such a title is found.
C16_TitleMatchIsFound ==
  [][(/\ pc = "lt_pause"
      /\ ~testing_paused
      /\ pc' # "lt_pause"
      /\ \A h \in wins \ lt.windows_before : ~ExeOwned(h)
      /\ \E h \in wins \ lt.windows_before : TitleMatches(lt.result.Name, wtitle[h])) =>
       /\ pc' = "lt_settle"
       /\ lt'.application_window_found
       /\ lt'.expected_window \in wins \ lt.windows_before
       /\ TitleMatches(lt.result.Name, wtitle[lt'.expected_window])]_vars

\* C17: in every case, the executables recorded as terminated (by
\* kill_process_tree and by the sweep together) hold no protected name, in the
\* locals and in the result handed back, and no signal of the case went to a
\* protected process.
C17_NoProtectedTerminated ==
  /\ \A n \in lt.terminated_executables : ~ProtectedName(n)
  /\ \A i \in 1..Len(hist.signals) : ~ProtectedName(pname[hist.signals[i][1]])
  /\ pc = "rt_append" =>
       \A n \in lt.result.TerminatedExecutables.items : ~ProtectedName(n)

C17_Witness ==
  /\ pc = "rt_append"
  /\ lt.result.Status = "Success"
  /\ \E p \in procs \ lt.processes_before : ProtectedName(pname[p])
  /\ "App.exe" \in lt.result.TerminatedExecutables.items
  /\ "Host.exe" \in lt.result.TerminatedExecutables.items
  /\ lt.main_app_pid = 2
  /\ 6 \notin procs

\* C18 (as claimed): in every case, no window owned by a process with a
\* protected name is asked to close, by the close of the detected window or
\* by the sweep, and the closed windows of the locals and of the result hold
\* no title of such a window.
C18_NoProtectedWindowClosed ==
  /\ \A h \in hist.closed : ~ProtectedName(pname[wowner[h]])
  /\ \A h \in Handles :
       (wowner[h] \in DOMAIN pname /\ ProtectedName(pname[wowner[h]])) =>
         /\ wtitle[h] \notin lt.closed_windows
         /\ pc = "rt_append" => wtitle[h] \notin lt.result.ClosedWindows.items

\* C19 (as claimed): right after the sweep of a case, a second sweep with the
\* same baseline has nothing to do: no process outside the baseline is left
\* that it would terminate, and no window outside the baseline is left.
C19_SecondSweepFindsNothing ==
  (pc = "rt_append" /\ lt.result.Status = "Success") =>
    /\ \A p \in procs \ lt.processes_before : ProtectedName(pname[p])
    /\ wins \ lt.windows_before = {}

\* C20: whatever the status of the cases so far, run_tests goes on to the
\* next pair while testing_cancelled is not set, and appends the result of
\* every case it started: a run that ends with testing_cancelled not set has
\* started every case and holds one result per case, and a case that raised
\* has the status Failed with the error text in its remarks.
C20_FailureDoesNotAbortBatch ==
  /\ [](pc = "rt_done" /\ ~testing_cancelled =>
          hist.started = NumCases /\ Len(results) = NumCases)
  /\ [](\A i \in 1..Len(results) :
          results[i].Remarks = "Exception occurred" => results[i].Status = "Failed")
  /\ [][(pc = "rt_loop" /\ ~testing_cancelled /\ index <= NumCases /\ pc' # pc) =>
          pc' = "rt_pause"]_vars
  /\ [][(pc = "rt_append" /\ pc' # pc) =>
          /\ pc' = "rt_loop"
          /\ results' = Append(results, lt.result)
          /\ index' = index + 1]_vars

C20_Witness ==
  /\ pc = "rt_done"
  /\ ~testing_cancelled
  /\ Len(results) = 2
  /\ results[1].Status = "Failed"
  /\ results[1].Remarks = "Exception occurred"
  /\ results[2].Status = "Manual Intervention Required"

\* C21 (as claimed): when the two files exist and hold different numbers of
\* entries, load_files answers False, stores no list, and no case is run.
C21_LengthMismatchFailsLoad ==
  (/\ pc = "load_done"
   /\ lt.shortcuts_exists /\ lt.executables_exists
   /\ Len(NonBlank(lt.shortcuts_lines)) # Len(NonBlank(lt.executables_lines))) =>
     /\ ~lt.loaded.ret
     /\ ~lt.loaded.stored
     /\ lt.cases = 0

\* C22 (as claimed): a case that ends Success detected a window or a process,
\* and when it ends the detected window is no longer open and the detected
\* process is no longer running.
C22_SuccessMeansTornDown ==
  (pc = "rt_append" /\ lt.result.Status = "Success") =>
    /\ lt.application_window_found \/ lt.main_app_pid # 0
    /\ lt.application_window_found => lt.expected_window \notin wins
    /\ lt.main_app_pid \notin procs

\* C23 (as claimed): a case in which a new window was found ends Success with
\* a closed window on record and with the name of the process owning the
\* found window among the terminated executables, whenever that process
\* exits.
C23_FoundWindowScenario ==
  (pc = "rt_append" /\ lt.application_window_found) =>
    /\ lt.result.Status = "Success"
    /\ lt.result.ClosedWindows.items # {}
    /\ pname[wowner[lt.expected_window]] \in lt.result.TerminatedExecutables.items

\* C24: update_progress_window has been called exactly once for every case
\* started so far and for no other: the k-th call carries the index k and
\* the display name of the k-th pair, and the call for a case comes before
\* its snapshot and its launch.
C24_ProgressOncePerStartedCase ==
  /\ Len(hist.progress) = hist.started
  /\ \A k \in 1..Len(hist.progress) :
       /\ hist.progress[k].index = k
       /\ hist.progress[k].name = AppName(shortcuts[k])
  /\ \A i \in hist.launched \cup hist.snapshots : i <= Len(hist.progress)
  /\ pc = "rt_done" => Len(hist.progress) = Len(results)

C24_Witness ==
  /\ pc = "rt_done"
  /\ testing_cancelled
  /\ hist.cancelInFlight = 1
  /\ Len(hist.progress) = 1
  /\ hist.launched = {1}
  /\ NumCases > 1

\* C25: in a call of kill_process_tree the root is signalled only with
\* including_parent set and an unprotected name, only by terminate, and its
\* signal is the last of the call: every terminate and every kill sent to a
\* descendant comes before it.
C25_RootSignalledLast ==
  pc = "kill_done" =>
    \A i \in 1..Len(killRet.sig) :
      killRet.sig[i][1] = killRet.pid =>
        /\ i = Len(killRet.sig)
        /\ killRet.sig[i][2] = "terminate"
        /\ killRet.including_parent
        /\ ~ProtectedName(pname[killRet.pid])

C25_Witness ==
  /\ pc = "kill_done"
  /\ Len(killRet.sig) = 3
  /\ killRet.sig[1][2] = "terminate" /\ killRet.sig[1][1] # killRet.pid
  /\ killRet.sig[2][2] = "kill" /\ killRet.sig[2][1] # killRet.pid
  /\ killRet.sig[3] = <<killRet.pid, "terminate">>

\* the call of kill_process_tree got past the guard on its root
KillProceeded ==
  /\ pc = "kill_done"
  /\ killRet.pid \in killRet.before
  /\ ~ProtectedName(pname[killRet.pid])

\* C26: in a call of kill_process_tree no terminate of a descendant comes
\* after a kill; a descendant is sent kill only after its own terminate was
\* sent or denied in the first pass; and every unprotected descendant that
\* is alive after the two passes had its kill refused by the OS.
C26_TerminateThenKill ==
  KillProceeded =>
    /\ \A i \in 1..Len(killRet.sig) : \A j \in 1..Len(killRet.sig) :
         (i < j /\ killRet.sig[i][2] = "kill") =>
           (killRet.sig[j][1] = killRet.pid \/ killRet.sig[j][2] = "kill")
    /\ \A i \in 1..Len(killRet.sig) :
         killRet.sig[i][2] = "kill" =>
           \/ \E j \in 1..(i - 1) : killRet.sig[j] = <<killRet.sig[i][1], "terminate">>
           \/ <<killRet.sig[i][1], "terminate">> \in killRet.denied
    /\ \A c \in Reach({killRet.pid}, killRet.before \ {killRet.pid}) \cap procs :
         ~ProtectedName(pname[c]) => <<c, "kill">> \in killRet.denied

C26_Witness ==
  /\ KillProceeded
  /\ Len(killRet.sig) = 3
  /\ \E c \in procs, d \in killRet.before \ procs :
       /\ c # killRet.pid /\ d # killRet.pid
       /\ <<c, "kill">> \in killRet.denied
       /\ killRet.sig[1] = <<c, "terminate">>
       /\ killRet.sig[2] = <<d, "terminate">>
       /\ killRet.sig[3] = <<d, "kill">>

\* C27 (as claimed): the names returned by kill_process_tree are exactly the
\* names of the processes it sent terminate or kill to.
C27_ReturnsSignalledNames ==
  pc = "kill_done" =>
    SeqRange(killRet.ret) = {pname[killRet.sig[i][1]] : i \in 1..Len(killRet.sig)}

\* C30: a failed close of the detected window does not block the teardown:
\* once expected_window.close() has raised, the case goes on to
\* kill_process_tree on the detected process id, then to the residual sweep,
\* and ends with its result.
C30_FailedCloseDoesNotBlockTeardown ==
  (lt.application_window_found /\ lt.expected_window \in hist.closeRaised) =>
    \/ pc = "lt_kill"
    \/ /\ hist.killCalled
       /\ lt.main_app_pid = wowner[lt.expected_window]
       /\ \/ pc = "lt_sweep"
          \/ /\ pc = "rt_append"
             /\ hist.swept
             /\ lt.result.Status \in TerminalStatuses

C30_Witness ==
  /\ pc = "rt_append"
  /\ lt.application_window_found
  /\ lt.expected_window \in hist.closeRaised
  /\ lt.expected_window \notin hist.closed
  /\ hist.killCalled
  /\ hist.swept
  /\ \E i \in 1..Len(hist.signals) : hist.signals[i] = <<lt.main_app_pid, "terminate">>
  /\ lt.result.Status = "Success"

\* C28: an access-denied answer during kill_process_tree or during the
\* residual process sweep skips only the process that gave it: after the call
\* (and after the sweep) every unprotected process of the tree (of the new
\* processes) is gone, was sent a signal by that step, or is itself one that
\* answered access denied; and the case that met a denial ends as Success.
C28_DeniedSkipsOnlyThatProcess ==
  [][LET sent == {hist'.signals[i][1] : i \in (Len(hist.signals) + 1)..Len(hist'.signals)}
         deniedPids == {d[1] : d \in hist'.denied}
         root == lt.main_app_pid
         tree == IF root \in procs /\ ~is_system_process(pname[root])
                 THEN {root} \cup Reach({root}, procs \ {root}) ELSE {}
         residual == procs \ lt.processes_before
         handled(t) == is_system_process(pname[t]) \/ t \notin procs'
                         \/ t \in sent \/ t \in deniedPids
     IN  /\ (pc = "lt_kill" /\ pc' = "lt_sweep" /\ hist'.denied # {}) =>
               \A t \in tree : handled(t)
         /\ (pc = "lt_sweep" /\ pc' = "rt_append" /\ hist'.denied # {}) =>
               /\ \A t \in residual : handled(t)
               /\ lt'.result.Status = "Success"]_vars

C28_Witness ==
  /\ pc = "rt_append"
  /\ lt.result.Status = "Success"
  /\ \E d \in procs :
       /\ <<d, "terminate">> \in hist.denied
       /\ ppid[d] = lt.main_app_pid
       /\ \E i \in 1..Len(hist.signals) : hist.signals[i] = <<lt.main_app_pid, "terminate">>
       /\ \E i \in 1..Len(hist.signals) : hist.signals[i][1] \notin {d, lt.main_app_pid}

C31_SweepActsOnTheDiff ==
  [][(pc = "lt_sweep" /\ pc' = "rt_append") =>
       LET sent == {hist'.signals[i][1] : i \in (Len(hist.signals) + 1)..Len(hist'.signals)}
           deniedPids == {d[1] : d \in hist'.denied}
           new_pids == procs \ lt.processes_before
           new_windows == OpenAmong(wins, procs') \ lt.windows_before
       IN  /\ \A p \in new_pids :
                ~ProtectedName(pname[p]) =>
                  \/ p \in hist'.gone
                  \/ p \in deniedPids
                  \/ /\ p \in sent
                     /\ pname[p] \in lt'.result.TerminatedExecutables.items
           /\ sent \subseteq new_pids
           /\ \A h \in new_windows :
                \/ h \in hist'.closeRaised
                \/ /\ h \in hist'.closed
                   /\ wtitle[h] \in lt'.result.ClosedWindows.items
           /\ (hist'.closed \ hist.closed) \cap lt.windows_before = {}]_vars

C31_Witness ==
  /\ pc = "rt_append"
  /\ hist.swept
  /\ \E p \in CasePids \ lt.processes_before :
       /\ p # lt.main_app_pid
       /\ ppid[p] # lt.main_app_pid
       /\ \E i \in 1..Len(hist.signals) : hist.signals[i] = <<p, "terminate">>
       /\ pname[p] \in lt.result.TerminatedExecutables.items
  /\ \E h \in hist.closed :
       /\ h # lt.expected_window
       /\ wtitle[h] \in lt.result.ClosedWindows.items

\* C32: the steps of a case happen in one order, none reordered or repeated:
\* the baseline is captured with the launch and never changed afterwards;
\* the settle delay is entered only from the detection (a window found, or
\* the headless check); it is followed by the close step, then by
\* kill_process_tree (not run before, and run on the detected process), then
\* by the sweep (not run before), then by the result.
C32_TeardownOrder ==
  [][pc' # pc =>
       /\ pc = "lt_exists" =>
            /\ pc' = "lt_loop"
            /\ lt'.processes_before = procs /\ lt'.windows_before = wins
            /\ ~hist'.killCalled /\ ~hist'.swept /\ hist'.signals = <<>> /\ hist'.closed = {}
       /\ pc \in {"lt_loop", "lt_pause", "lt_sleep", "lt_headless", "lt_settle",
                  "lt_close", "lt_kill", "lt_sweep"} =>
            /\ lt'.processes_before = lt.processes_before
            /\ lt'.windows_before = lt.windows_before
       /\ pc \in {"lt_loop", "lt_pause", "lt_sleep", "lt_headless"} =>
            /\ hist'.signals = <<>> /\ hist'.closed = {}
            /\ ~hist'.killCalled /\ ~hist'.swept
       /\ pc' = "lt_settle" =>
            /\ pc \in {"lt_pause", "lt_headless"}
            /\ lt'.main_app_pid # 0
       /\ pc = "lt_settle" => pc' = "lt_close" /\ hist' = hist /\ procs' = procs /\ wins' = wins
       /\ pc = "lt_close" =>
            /\ pc' = "lt_kill"
            /\ hist'.signals = <<>> /\ ~hist'.killCalled /\ ~hist'.swept
       /\ pc = "lt_kill" =>
            /\ pc' = "lt_sweep"
            /\ ~hist.killCalled /\ hist'.killCalled /\ ~hist'.swept
            /\ hist'.closed = hist.closed
       /\ pc = "lt_sweep" =>
            /\ pc' = "rt_append"
            /\ hist.killCalled /\ ~hist.swept /\ hist'.swept
            /\ lt'.result.Status = "Success"]_vars

C32_Witness ==
  /\ pc = "rt_append"
  /\ elapsed > 0
  /\ hist.launched = {1}
  /\ lt.application_window_found
  /\ lt.expected_window \in hist.closed
  /\ hist.killCalled
  /\ hist.swept
  /\ Len(hist.signals) >= 2
  /\ lt.processes_before = {1}
  /\ lt.result.Status = "Success"

\* C33 (as claimed): when the executables file was written by script2 from
\* the shortcuts file of script1, every stored shortcut is paired with the
\* executable that script2 wrote on its line (its target, empty or not), and
\* the stored shortcuts are the non-folder shortcuts of the file, in order.
C33_PairsFollowTheCollector ==
  (pc = "load_done" /\ lt.collected) =>
    /\ lt.loaded.shortcuts =
         SelectSeq(lt.shortcuts_lines, LAMBDA l : ~StartsWithFolder(l))
    /\ \A i \in 1..Len(lt.loaded.shortcuts) :
         lt.loaded.executables[i] = get_shortcut_target(lt.targets, lt.loaded.shortcuts[i])

\* C34 (as claimed): no process of the baseline snapshot of the case is
\* signalled during the case: the process handed to kill_process_tree is not
\* in the baseline, and no process that is sent terminate or kill is.
C34_NoBaselineProcessSignalled ==
  pc \in {"lt_settle", "lt_close", "lt_kill", "lt_sweep", "rt_append"} =>
    /\ lt.main_app_pid \notin lt.processes_before
    /\ \A i \in 1..Len(hist.signals) : hist.signals[i][1] \notin lt.processes_before

\* C35: no window of the baseline snapshot of the case is selected as the
\* detected window or closed during the case: the detected window, every
\* window asked to close and every title recorded as associated or closed
\* belong to handles that were not in the baseline.
C35_NoBaselineWindowTouched ==
  pc \in {"lt_loop", "lt_pause", "lt_sleep", "lt_headless", "lt_settle", "lt_close",
          "lt_kill", "lt_sweep", "rt_append"} =>
    /\ lt.application_window_found => lt.expected_window \notin lt.windows_before
    /\ hist.closed \cap lt.windows_before = {}
    /\ hist.closeRaised \cap lt.windows_before = {}
    /\ lt.closed_windows \subseteq {wtitle[h] : h \in Handles \ lt.windows_before}
    /\ SeqRange(lt.associated_window_titles)
         \subseteq {wtitle[h] : h \in Handles \ lt.windows_before}

C35_Witness ==
  /\ pc = "rt_append"
  /\ lt.windows_before # {}
  /\ lt.windows_before \subseteq wins
  /\ lt.application_window_found
  /\ lt.expected_window \in hist.closed
  /\ hist.swept
  /\ \E h \in lt.windows_before : TitleMatches(lt.result.Name, wtitle[h])

====
